---- MODULE Spec2Model ----
(***************************************************************************)
(* State-machine model of research/slim:                                   *)
(*   slim_exporter.py          export_inference_graph and its helpers      *)
(*   eval_image_classifier.py  the __main__ block and main                 *)
(* The TensorFlow framework is modelled by the contract the scripts use:   *)
(* a checkpoint is a map from tensor names to values stored under a path   *)
(* prefix, a session is a map from graph variables to values, restore      *)
(* reads tensors by name and save writes the graph's variables.            *)
(***************************************************************************)
EXTENDS Integers, Sequences, FiniteSets, TLC

(***************************************************************************)
(* Bounds of the model.                                                    *)
(***************************************************************************)
NumDirs == 2
MaxValue == 2
MaxSide == 1
MaxPathLen == 3
MaxClasses == 3
MaxSamples == 4
MaxBatchSize == 3
MaxCap == 2
MaxCkpts == 2
MaxImageSize == 2

(***************************************************************************)
(* Python values.                                                          *)
(***************************************************************************)
\* A bool-valued argument that may be None.
PyFlag == {"None", "False", "True"}
Truthy(x) == x = "True"

\* A string flag that may be None; a string is a sequence of characters.
PyNone == [none |-> TRUE, str |-> <<>>]
PyStr(s) == [none |-> FALSE, str |-> s]
StrFalsy(x) == x.none \/ x.str = <<>>

\* An integer flag that may be None.
PyNoneInt == [none |-> TRUE, int |-> 0]
PyInt(i) == [none |-> FALSE, int |-> i]
IntTruthy(x) == ~x.none /\ x.int # 0

\* sub in s, for strings.
Contains(s, sub) == \E i \in 1..(Len(s) - Len(sub) + 1) : SubSeq(s, i, i + Len(sub) - 1) = sub

(***************************************************************************)
(* slim_exporter.py: checkpoints on disk and sessions.                     *)
(***************************************************************************)
Dirs == 1..NumDirs
TmpDir == 0
Values == 1..MaxValue
CkptNames == {"model.ckpt", "train.ckpt"}
Versions == {"V1", "V2"}

\* Variables of the inference graph: the model's weights (trainable) and the
\* global step added by slim.get_or_create_global_step().
GraphVars == {"w", "global_step"}
TrainableVars == {"w"}
\* The variables the output nodes 'classes' and 'logits' depend on: the
\* global step, created after the outputs (line 322), feeds neither.
OutputDeps == {"w"}
OwnName(v) == <<v>>
AverageName(v) == <<v, "ExponentialMovingAverage">>

\* ExponentialMovingAverage(0.0).variables_to_restore(): a trainable variable
\* is restored from its shadow tensor, every other variable from its own.
EmaRestoreNameRaw(v) == OwnName(v)
EmaRestoreName(v) == IF v \in TrainableVars THEN AverageName(v) ELSE OwnName(v)

Absent == [kind |-> "absent"]
Ckpt(t) == [kind |-> "ckpt", tensors |-> t]
Prefix(d, n) == [dir |-> d, name |-> n]
Slot(p, ver) == [dir |-> p.dir, name |-> p.name, ver |-> ver]
TmpPrefix == Prefix(TmpDir, "tmp")
AllPrefixes == {Prefix(d, n) : d \in Dirs, n \in CkptNames} \cup {TmpPrefix}
AllSlots == {Slot(p, ver) : p \in AllPrefixes, ver \in Versions}

\* os.path.join(output_directory, 'model.ckpt')
ModelPath(outdir) == Prefix(outdir, "model.ckpt")

\* os.path.isfile(prefix): only a V1 checkpoint is a file named by the prefix
\* itself; a V2 checkpoint is prefix.index and prefix.data-*.
IsFile(fs, p) == fs[Slot(p, "V1")] # Absent

\* What a restore op reads at a prefix: the V2 bundle if there is one, else
\* the V1 file.
ReadCkpt(fs, p) == IF fs[Slot(p, "V2")] # Absent THEN fs[Slot(p, "V2")] ELSE fs[Slot(p, "V1")]

\* The name -> variable map of tf.train.Saver() and of
\* tf.train.Saver(ema_variables_to_restore), as variable -> name.
OwnNames == [v \in GraphVars |-> OwnName(v)]
EmaNames == [v \in GraphVars |-> EmaRestoreName(v)]

\* saver.restore(sess, prefix): every variable of the saver is read from the
\* tensor of its name; a missing checkpoint or tensor is a framework error.
CanRestore(fs, p, names) ==
  /\ ReadCkpt(fs, p) # Absent
  /\ \A v \in GraphVars : names[v] \in DOMAIN ReadCkpt(fs, p).tensors
Restore(fs, p, names) == [v \in GraphVars |-> ReadCkpt(fs, p).tensors[names[v]]]

\* saver.save(sess, prefix): every graph variable under its own name.
SavedTensors(sess) == [n \in {OwnName(v) : v \in GraphVars} |-> sess[n[1]]]
Save(fs, p, sess, ver) == [fs EXCEPT ![Slot(p, ver)] = Ckpt(SavedTensors(sess))]

\* The trained checkpoint: raw weights, the global step and, when training
\* kept moving averages, the shadow of the weights.
TrainedTensors(r, g, s, ema) ==
  [n \in {OwnName(v) : v \in GraphVars} \cup (IF ema THEN {AverageName(v) : v \in TrainableVars} ELSE {})
     |-> IF n = OwnName("w") THEN r ELSE IF n = OwnName("global_step") THEN g ELSE s]

(***************************************************************************)
(* slim_exporter.py: the inference graph.                                  *)
(***************************************************************************)
InputTypes == {"image_tensor", "encoded_image_string_tensor", "tf_example"}
input_placeholder_fn_map == {"image_tensor", "encoded_image_string_tensor"}
NoShape == <<>>
UnknownDim == -1
InputShapes == {<<1, h, h, 3>> : h \in 1..MaxSide}

NoPlaceholder == [name |-> "none", dtype |-> "none", shape |-> <<>>]
EmptyGraph == [placeholder |-> NoPlaceholder, outputs |-> {}, variables |-> {}]

PlaceholderDefaultShape(shape) ==
  [name |-> "image_tensor", dtype |-> "uint8", shape |-> <<UnknownDim, UnknownDim, UnknownDim, 3>>]
_image_tensor_input_placeholder(shape) ==
  [name |-> "image_tensor", dtype |-> "uint8",
   shape |-> IF shape = NoShape THEN <<UnknownDim, UnknownDim, UnknownDim, 3>> ELSE shape]

_encoded_image_string_tensor_input_placeholder ==
  [name |-> "encoded_image_string_tensor", dtype |-> "string", shape |-> <<UnknownDim>>]

\* Line 324: if graph_hook_fn: graph_hook_fn().
HookRuns(hook) == hook # "None"

\* The error _build_model_graph raises, or "ok".
BuildErrorShapeFirst(itype, shape) ==
  IF shape # NoShape /\ itype # "image_tensor"
  THEN "ValueError: Can only specify input shape for 'image_tensor' inputs."
  ELSE IF itype \notin input_placeholder_fn_map THEN "ValueError: Unknown input type" ELSE "ok"
BuildErrorNoShapeCheck(itype, shape) ==
  IF itype \notin input_placeholder_fn_map THEN "ValueError: Unknown input type" ELSE "ok"
BuildError(itype, shape) ==
  IF itype \notin input_placeholder_fn_map THEN "ValueError: Unknown input type"
  ELSE IF shape # NoShape /\ itype # "image_tensor"
       THEN "ValueError: Can only specify input shape for 'image_tensor' inputs."
       ELSE "ok"

_build_model_graph(itype, shape) ==
  [placeholder |-> IF itype = "image_tensor"
                   THEN _image_tensor_input_placeholder(shape)
                   ELSE _encoded_image_string_tensor_input_placeholder,
   outputs |-> {"classes", "logits"},
   variables |-> GraphVars]

VARIABLES input_type, input_shape, use_moving_averages, trained_checkpoint_prefix, output_directory, graph_hook_fn, additional_output_tensor_names, ckpts, dirs, frozen_files, saved_models, trained0, dirs0, xpc, xerror, graph, hook_called, saver_kwargs, checkpoint_to_use, steps, artifacts

xargs == <<input_type, input_shape, use_moving_averages, trained_checkpoint_prefix, output_directory, graph_hook_fn, additional_output_tensor_names>>
xdisk == <<ckpts, dirs, frozen_files, saved_models>>
xlocals == <<xpc, xerror, graph, hook_called, saver_kwargs, checkpoint_to_use, steps, artifacts>>
xvars == <<xargs, xdisk, trained0, dirs0, xlocals>>

\* eval_image_classifier.py: the command line, FLAGS, and main's locals.
VARIABLES argv, given, FLAGS, ckpt_dir, epc, eerror, dataset, names_to_values, names_to_updates, num_batches, checkpoint_path, restored, evals_completed, fed, executed

elocals == <<dataset, names_to_values, names_to_updates, num_batches, checkpoint_path, restored, evals_completed, fed, executed>>
evars == <<argv, given, FLAGS, ckpt_dir, epc, eerror, elocals>>

\* The image path of _get_outputs_from_inputs: one pixel of the uint8 input,
\* the image_size argument, and the tensor as it moves through the steps.
VARIABLES pixel, image_size, ppc, image

pvars == <<pixel, image_size, ppc, image>>
vars == <<xvars, evars, pvars>>

(***************************************************************************)
(* export_inference_graph, statement by statement.                         *)
(***************************************************************************)
NoPrefix == Prefix(TmpDir, "none")

\* The statement that follows statement pc in export_inference_graph.
AfterStepBundleFirst(pc) ==
  CASE pc = "start" -> "build"
    [] pc = "build" -> "select"
    [] pc = "select" -> "materialize"
    [] pc = "materialize" -> "bundle"
    [] pc = "bundle" -> "freeze"
    [] pc = "freeze" -> "done"
    [] OTHER -> "done"
AfterStep(pc) ==
  CASE pc = "start" -> "build"
    [] pc = "build" -> "select"
    [] pc = "select" -> "materialize"
    [] pc = "materialize" -> "freeze"
    [] pc = "freeze" -> "bundle"
    [] pc = "bundle" -> "done"
    [] OTHER -> "done"

XInit ==
  /\ input_type \in InputTypes
  /\ input_shape \in {NoShape} \cup InputShapes
  /\ use_moving_averages \in PyFlag
  /\ trained_checkpoint_prefix \in {Prefix(d, n) : d \in Dirs, n \in CkptNames}
  /\ output_directory \in Dirs
  /\ graph_hook_fn \in {"None", "fn"}
  /\ additional_output_tensor_names \in {"None", "list"}
  /\ \E r \in Values, g \in Values, s \in Values, ema \in BOOLEAN, ver \in Versions :
       /\ trained0 = Ckpt(TrainedTensors(r, g, s, ema))
       /\ ckpts = [sl \in AllSlots |-> IF sl = Slot(trained_checkpoint_prefix, ver) THEN trained0 ELSE Absent]
  /\ dirs \in {{trained_checkpoint_prefix.dir}, {trained_checkpoint_prefix.dir, output_directory}}
  /\ dirs0 = dirs
  /\ frozen_files = [d \in Dirs |-> Absent]
  /\ saved_models = [d \in Dirs |-> Absent]
  /\ xpc = "start"
  /\ xerror = "ok"
  /\ graph = EmptyGraph
  /\ hook_called = FALSE
  /\ saver_kwargs = "V2"
  /\ checkpoint_to_use = NoPrefix
  /\ steps = <<>>
  /\ artifacts = <<>>

\* Line 357: tf.gfile.MakeDirs(output_directory).
XMakeDirs ==
  /\ xpc = "start"
  /\ dirs' = dirs \cup {output_directory}
  /\ xpc' = AfterStep(xpc)
  /\ steps' = Append(steps, "makedirs")
  /\ UNCHANGED <<xargs, trained0, dirs0, ckpts, frozen_files, saved_models, xerror, graph, saver_kwargs, checkpoint_to_use, artifacts>>
  /\ UNCHANGED hook_called
  /\ UNCHANGED <<evars, pvars>>

\* Lines 363-369: _build_model_graph, which raises or builds the graph.
XBuildGraph ==
  /\ xpc = "build"
  /\ IF BuildError(input_type, input_shape) # "ok"
     THEN /\ xerror' = BuildError(input_type, input_shape)
          /\ xpc' = "raised"
          /\ UNCHANGED <<graph, hook_called, steps>>
     ELSE /\ graph' = _build_model_graph(input_type, input_shape)
          /\ hook_called' = HookRuns(graph_hook_fn)
          /\ xpc' = AfterStep(xpc)
          /\ steps' = Append(steps, "graph")
          /\ UNCHANGED xerror
  /\ UNCHANGED <<xargs, trained0, dirs0, xdisk, saver_kwargs, checkpoint_to_use, artifacts>>
  /\ UNCHANGED <<evars, pvars>>

\* Lines 372-382 with replace_variable_values_with_moving_averages (85-107):
\* restore every variable from the name variables_to_restore() gives it and
\* save the session under a temporary prefix (default write version).
XSubstitute ==
  /\ xpc = "select"
  /\ Truthy(use_moving_averages)
  /\ saver_kwargs' = IF IsFile(ckpts, trained_checkpoint_prefix) THEN "V1" ELSE saver_kwargs
  /\ IF CanRestore(ckpts, trained_checkpoint_prefix, EmaNames)
     THEN /\ ckpts' = Save(ckpts, TmpPrefix, Restore(ckpts, trained_checkpoint_prefix, EmaNames), "V2")
          /\ checkpoint_to_use' = TmpPrefix
          /\ xpc' = AfterStep(xpc)
          /\ steps' = Append(steps, "substitute")
          /\ artifacts' = Append(artifacts, "temporary checkpoint")
          /\ UNCHANGED xerror
     ELSE /\ xerror' = "NotFoundError"
          /\ xpc' = "raised"
          /\ UNCHANGED <<ckpts, checkpoint_to_use, steps, artifacts>>
  /\ UNCHANGED <<xargs, trained0, dirs0, dirs, frozen_files, saved_models, graph>>
  /\ UNCHANGED hook_called
  /\ UNCHANGED <<evars, pvars>>

\* Lines 383-384: no substitution requested.
XNoSubstitute ==
  /\ xpc = "select"
  /\ ~Truthy(use_moving_averages)
  /\ checkpoint_to_use' = trained_checkpoint_prefix
  /\ xpc' = AfterStep(xpc)
  /\ UNCHANGED <<xargs, trained0, dirs0, xdisk, xerror, graph, saver_kwargs, steps, artifacts>>
  /\ UNCHANGED hook_called
  /\ UNCHANGED <<evars, pvars>>

\* Lines 386-393 with write_graph_and_checkpoint (277-290): restore
\* checkpoint_to_use into a copy of the graph and save it as model.ckpt.
XMaterialize ==
  /\ xpc = "materialize"
  /\ IF CanRestore(ckpts, checkpoint_to_use, OwnNames)
     THEN /\ ckpts' = Save(ckpts, ModelPath(output_directory), Restore(ckpts, checkpoint_to_use, OwnNames), saver_kwargs)
          /\ xpc' = AfterStep(xpc)
          /\ steps' = Append(steps, "checkpoint")
          /\ artifacts' = Append(artifacts, "model.ckpt")
          /\ UNCHANGED xerror
     ELSE /\ xerror' = "NotFoundError"
          /\ xpc' = "raised"
          /\ UNCHANGED <<ckpts, steps, artifacts>>
  /\ UNCHANGED <<xargs, trained0, dirs0, dirs, frozen_files, saved_models, graph, saver_kwargs, checkpoint_to_use>>
  /\ UNCHANGED hook_called
  /\ UNCHANGED <<evars, pvars>>

\* Lines 395-399: ','.join(outputs.keys() + additional_output_tensor_names)
\* adds a dict view and a list, a TypeError, whenever the argument is given.
OutputNodeNamesError(additional) ==
  IF additional # "None" THEN "TypeError: unsupported operand type(s) for +: 'dict_keys' and 'list'" ELSE "ok"

\* Lines 401-411: freeze_graph_with_def_protos(input_checkpoint=
\* checkpoint_to_use, output_node_names='classes,logits') prunes the graph to
\* what the outputs depend on and folds the restored values of those
\* variables into constants; write_frozen_graph writes
\* frozen_inference_graph.pb.
FrozenGraph(g, sess) ==
  [kind |-> "frozen", inputs |-> g.placeholder.name, outputs |-> g.outputs,
   constants |-> [v \in g.variables \cap OutputDeps |-> sess[v]]]

XFreeze ==
  /\ xpc = "freeze"
  /\ IF OutputNodeNamesError(additional_output_tensor_names) # "ok"
     THEN /\ xerror' = OutputNodeNamesError(additional_output_tensor_names)
          /\ xpc' = "raised"
          /\ UNCHANGED <<frozen_files, steps, artifacts>>
     ELSE IF CanRestore(ckpts, checkpoint_to_use, OwnNames)
     THEN /\ frozen_files' = [frozen_files EXCEPT ![output_directory] = FrozenGraph(graph, Restore(ckpts, checkpoint_to_use, OwnNames))]
          /\ xpc' = AfterStep(xpc)
          /\ steps' = Append(steps, "freeze")
          /\ artifacts' = Append(artifacts, "frozen_inference_graph.pb")
          /\ UNCHANGED xerror
     ELSE /\ xerror' = "NotFoundError"
          /\ xpc' = "raised"
          /\ UNCHANGED <<frozen_files, steps, artifacts>>
  /\ UNCHANGED <<xargs, trained0, dirs0, ckpts, dirs, saved_models, graph, saver_kwargs, checkpoint_to_use>>
  /\ UNCHANGED hook_called
  /\ UNCHANGED <<evars, pvars>>

\* Lines 412-413 with _write_saved_model (239-274): a saver over the default
\* graph restores trained_checkpoint_prefix and the builder saves the
\* session's variables with the signature inputs -> outputs.
SavedModel(g, sess) ==
  [kind |-> "saved_model", inputs |-> g.placeholder.name, outputs |-> g.outputs, variables |-> sess, constants |-> <<>>]

XBundle ==
  /\ xpc = "bundle"
  /\ IF CanRestore(ckpts, trained_checkpoint_prefix, OwnNames)
     THEN /\ saved_models' = [saved_models EXCEPT ![output_directory] = SavedModel(graph, Restore(ckpts, trained_checkpoint_prefix, OwnNames))]
          /\ xpc' = AfterStep(xpc)
          /\ steps' = Append(steps, "bundle")
          /\ artifacts' = Append(artifacts, "saved_model")
          /\ UNCHANGED xerror
     ELSE /\ xerror' = "NotFoundError"
          /\ xpc' = "raised"
          /\ UNCHANGED <<saved_models, steps, artifacts>>
  /\ UNCHANGED <<xargs, trained0, dirs0, ckpts, dirs, frozen_files, graph, saver_kwargs, checkpoint_to_use>>
  /\ UNCHANGED hook_called
  /\ UNCHANGED <<evars, pvars>>

\* Lines 190-235: the public write_saved_model(saved_model_path,
\* frozen_graph_def, inputs, outputs), which export_inference_graph does not
\* call. It imports the frozen graph into a fresh graph and saves it with
\* the signature inputs -> outputs: no checkpoint is restored and the bundle
\* has no variables, the weights are the frozen constants.
\* SavedModelBuilder refuses a directory that holds a bundle already.
FrozenSavedModel(frozen) ==
  [kind |-> "saved_model", inputs |-> frozen.inputs, outputs |-> frozen.outputs, variables |-> <<>>, constants |-> frozen.constants]
WriteSavedModelError(models, d) ==
  IF models[d] # Absent THEN "AssertionError: Export directory already exists, and isn't empty." ELSE "ok"

\* A caller hands write_saved_model the frozen graph of the finished export
\* and a directory saved_model_dir for the bundle.
XWriteSavedModel ==
  /\ xpc = "done"
  /\ \E saved_model_dir \in Dirs :
       IF WriteSavedModelError(saved_models, saved_model_dir) # "ok"
       THEN /\ xerror' = WriteSavedModelError(saved_models, saved_model_dir)
            /\ xpc' = "raised"
            /\ UNCHANGED <<saved_models, dirs>>
       ELSE /\ saved_models' = [saved_models EXCEPT ![saved_model_dir] = FrozenSavedModel(frozen_files[output_directory])]
            /\ dirs' = dirs \cup {saved_model_dir}
            /\ xpc' = "written"
            /\ UNCHANGED xerror
  /\ UNCHANGED <<xargs, trained0, dirs0, ckpts, frozen_files, graph, saver_kwargs, checkpoint_to_use, steps, artifacts>>
  /\ UNCHANGED hook_called
  /\ UNCHANGED <<evars, pvars>>

XNext == XMakeDirs \/ XBuildGraph \/ XSubstitute \/ XNoSubstitute \/ XMaterialize \/ XFreeze \/ XBundle \/ XWriteSavedModel

(***************************************************************************)
(* eval_image_classifier.py: flags.                                        *)
(***************************************************************************)
\* A checkpoint_path value: None, the training directory, or the prefix of
\* the checkpoint saved at a step.
CkNone == [kind |-> "none", step |-> 0]
CkDir == [kind |-> "dir", step |-> 0]
CkFile(i) == [kind |-> "file", step |-> i]

PathChars == {"d", "o", "g"}
RECURSIVE StringsOfLen(_)
StringsOfLen(n) == IF n = 0 THEN {<<>>} ELSE {Append(t, c) : t \in StringsOfLen(n - 1), c \in PathChars}
StringsUpTo(n) == UNION {StringsOfLen(k) : k \in 0..n}

\* Lines 42-120: the flag definitions with their defaults.
DefaultBatchSize == 100
DefaultThreads == 4
DefaultFlags ==
  [batch_size |-> DefaultBatchSize,
   num_preprocessing_threads |-> DefaultThreads,
   max_num_batches |-> PyNoneInt,
   checkpoint_path |-> CkNone,
   eval_dir |-> PyNone,
   output_path |-> PyNone,
   dataset_name |-> "mnist",
   dataset_split_name |-> "test",
   dataset_dir |-> PyNone,
   data_path |-> PyNone,
   model_name |-> "lenet"]

(***************************************************************************)
(* eval_image_classifier.py: the __main__ block.                           *)
(***************************************************************************)
\* The command line is argv, the value each flag gets when the command line
\* is parsed, and given, the flags that appear on it: a flag that does not
\* appear has its default.
NameFlags == {"dataset_name", "dataset_split_name", "model_name"}
GivenOf(a, names) == names \cup {f \in (DOMAIN a) \ NameFlags : a[f] # DefaultFlags[f]}
GivenNames(a) == {ns \in SUBSET NameFlags : \A f \in NameFlags \ ns : a[f] = DefaultFlags[f]}

\* Lines 276-277.
AliasDatasetDir(F) ==
  IF ~F.data_path.none THEN [F EXCEPT !.dataset_dir = F.data_path] ELSE F

\* Lines 278-279.
AliasEvalDir(F) ==
  IF ~F.output_path.none THEN [F EXCEPT !.eval_dir = F.output_path] ELSE F

\* Lines 281-284. 'dog' in FLAGS.data_path is a TypeError when data_path is
\* None.
Dog == <<"d", "o", "g">>
DogError(F) == IF F.data_path.none THEN "TypeError: argument of type 'NoneType' is not iterable" ELSE "ok"
DogOverride(F) ==
  IF Contains(F.data_path.str, Dog)
  THEN [F EXCEPT !.dataset_name = "dog-vs-cat", !.dataset_split_name = "validation", !.model_name = "inception_v3"]
  ELSE F

\* Line 285: tf.app.run() parses the command line again before it calls
\* main; every flag that appears on it gets its command-line value back, the
\* others keep the value they have.
Reparse(F, a, g) == [f \in DOMAIN F |-> IF f \in g THEN a[f] ELSE F[f]]

\* The statement that follows statement pc in the script.
EAfterStep(pc) ==
  CASE pc = "alias_dataset_dir" -> "alias_eval_dir"
    [] pc = "alias_eval_dir" -> "dog"
    [] pc = "dog" -> "app_run"
    [] pc = "app_run" -> "run"
    [] pc = "run" -> "graph"
    [] pc = "graph" -> "num_batches"
    [] pc = "num_batches" -> "checkpoint"
    [] pc = "checkpoint" -> "evaluate"
    [] OTHER -> "done"

\* dataset before dataset_factory.get_dataset is called. labels_to_names is
\* None or a dict, of which the model keeps the keys.
NoLabels == [none |-> TRUE, keys |-> {}]
Labels(ks) == [none |-> FALSE, keys |-> ks]
NoDataset == [num_classes |-> 0, num_samples |-> 0, labels_to_names |-> NoLabels]

EIdle ==
  /\ argv = DefaultFlags
  /\ given = {}
  /\ FLAGS = DefaultFlags
  /\ ckpt_dir = {}
  /\ epc = "idle"
  /\ eerror = "ok"
  /\ dataset = NoDataset
  /\ names_to_values = <<>>
  /\ names_to_updates = <<>>
  /\ num_batches = 0
  /\ checkpoint_path = CkNone
  /\ restored = {}
  /\ evals_completed = 0
  /\ fed = {}
  /\ executed = {}

XIdle ==
  /\ input_type = "image_tensor"
  /\ input_shape = NoShape
  /\ use_moving_averages = "None"
  /\ trained_checkpoint_prefix = NoPrefix
  /\ output_directory = TmpDir
  /\ graph_hook_fn = "None"
  /\ additional_output_tensor_names = "None"
  /\ ckpts = [sl \in AllSlots |-> Absent]
  /\ trained0 = Absent
  /\ dirs = {}
  /\ dirs0 = {}
  /\ frozen_files = [d \in Dirs |-> Absent]
  /\ saved_models = [d \in Dirs |-> Absent]
  /\ xpc = "idle"
  /\ xerror = "ok"
  /\ graph = EmptyGraph
  /\ hook_called = FALSE
  /\ saver_kwargs = "V2"
  /\ checkpoint_to_use = NoPrefix
  /\ steps = <<>>
  /\ artifacts = <<>>

\* The command lines of the start-up model: the path and name flags vary.
OptPaths(n) == {PyNone} \cup {PyStr(t) : t \in StringsUpTo(n)}
StartupArgvs ==
  {[DefaultFlags EXCEPT !.data_path = dp, !.dataset_dir = dd, !.output_path = op, !.eval_dir = ed,
                        !.dataset_name = dn, !.dataset_split_name = sn, !.model_name = mn] :
     dp \in OptPaths(MaxPathLen), dd \in OptPaths(MaxPathLen),
     op \in {PyNone, PyStr(<<"o">>)}, ed \in {PyNone, PyStr(<<"d">>)},
     dn \in {"mnist", "flowers"}, sn \in {"test", "train"}, mn \in {"lenet", "vgg_16"}}

StartupInit ==
  /\ argv \in StartupArgvs
  /\ given \in {GivenOf(argv, ns) : ns \in GivenNames(argv)}
  /\ FLAGS = argv
  /\ ckpt_dir = {}
  /\ epc = "alias_dataset_dir"
  /\ eerror = "ok"
  /\ dataset = NoDataset
  /\ names_to_values = <<>>
  /\ names_to_updates = <<>>
  /\ num_batches = 0
  /\ checkpoint_path = CkNone
  /\ restored = {}
  /\ evals_completed = 0
  /\ fed = {}
  /\ executed = {}

EAliasDatasetDir ==
  /\ epc = "alias_dataset_dir"
  /\ FLAGS' = AliasDatasetDir(FLAGS)
  /\ epc' = EAfterStep(epc)
  /\ UNCHANGED <<argv, given, ckpt_dir, eerror, elocals, xvars, pvars>>

EAliasEvalDir ==
  /\ epc = "alias_eval_dir"
  /\ FLAGS' = AliasEvalDir(FLAGS)
  /\ epc' = EAfterStep(epc)
  /\ UNCHANGED <<argv, given, ckpt_dir, eerror, elocals, xvars, pvars>>

EDog ==
  /\ epc = "dog"
  /\ IF DogError(FLAGS) # "ok"
     THEN /\ eerror' = DogError(FLAGS)
          /\ epc' = "raised"
          /\ UNCHANGED FLAGS
     ELSE /\ FLAGS' = DogOverride(FLAGS)
          /\ epc' = EAfterStep(epc)
          /\ UNCHANGED eerror
  /\ UNCHANGED <<argv, given, ckpt_dir, elocals, xvars, pvars>>

EAppRun ==
  /\ epc = "app_run"
  /\ FLAGS' = Reparse(FLAGS, argv, given)
  /\ epc' = EAfterStep(epc)
  /\ UNCHANGED <<argv, given, ckpt_dir, eerror, elocals, xvars, pvars>>

(***************************************************************************)
(* eval_image_classifier.py: main, called by tf.app.run().                 *)
(***************************************************************************)
\* Lines 126-127.
MainCheckError(F) ==
  IF StrFalsy(F.dataset_dir) THEN "ValueError: You must supply the dataset directory with --dataset_dir" ELSE "ok"

EMainCheck ==
  /\ epc = "run"
  /\ IF MainCheckError(FLAGS) # "ok"
     THEN /\ eerror' = MainCheckError(FLAGS)
          /\ epc' = "raised"
     ELSE /\ epc' = EAfterStep(epc)
          /\ UNCHANGED eerror
  /\ UNCHANGED <<argv, given, ckpt_dir, FLAGS, elocals, xvars, pvars>>

\* Lines 199-221: the metric map handed to aggregate_metric_map, as
\* name -> the metric function called (with its distinguishing argument).
Metric(fn, arg) == [fn |-> fn, arg |-> arg]
MultiClassMetrics ==
  [n \in {"Accuracy", "Precision", "Recall", "Recall_5"} |->
     CASE n = "Accuracy" -> Metric("streaming_accuracy", "")
       [] n = "Precision" -> Metric("streaming_precision", "")
       [] n = "Recall" -> Metric("streaming_recall", "")
       [] n = "Recall_5" -> Metric("streaming_recall_at_k", "5")]
BinaryMetrics ==
  [n \in {"Accuracy", "Precision", "Recall", "F1_score", "Auc_ROC", "Auc_PR", "TP", "TN", "FP", "FN"} |->
     CASE n = "Accuracy" -> Metric("streaming_accuracy", "")
       [] n = "Precision" -> Metric("streaming_precision", "")
       [] n = "Recall" -> Metric("streaming_recall", "")
       [] n = "F1_score" -> Metric("f1_score", "")
       [] n = "Auc_ROC" -> Metric("streaming_auc", "ROC")
       [] n = "Auc_PR" -> Metric("streaming_auc", "PR")
       [] n = "TP" -> Metric("streaming_true_positives", "")
       [] n = "TN" -> Metric("streaming_true_negatives", "")
       [] n = "FP" -> Metric("streaming_false_positives", "")
       [] n = "FN" -> Metric("streaming_false_negatives", "")]
MetricMapFromTwo(num_classes) == IF num_classes >= 2 THEN MultiClassMetrics ELSE BinaryMetrics
MetricMap(num_classes) == IF num_classes > 2 THEN MultiClassMetrics ELSE BinaryMetrics

\* slim.metrics.aggregate_metric_map: the value op and the update op of
\* every metric, under the metric's name.
ValueOp(m) == [metric |-> m, op |-> "value"]
UpdateOp(m) == [metric |-> m, op |-> "update"]
NamesToValues(mm) == [n \in DOMAIN mm |-> ValueOp(mm[n])]
NamesToUpdates(mm) == [n \in DOMAIN mm |-> UpdateOp(mm[n])]

\* Lines 223-250: with at most two classes the summary names of TP, FN, FP
\* and TN look up labels_to_names[1] and labels_to_names[0], TP first.
SummaryError(ds) ==
  IF ds.num_classes > 2 THEN "ok"
  ELSE IF ds.labels_to_names.none THEN "TypeError: 'NoneType' object is not subscriptable"
  ELSE IF 1 \notin ds.labels_to_names.keys THEN "KeyError: 1"
  ELSE IF 0 \notin ds.labels_to_names.keys THEN "KeyError: 0"
  ELSE "ok"

\* Lines 130-250: the dataset descriptor comes from dataset_factory, its
\* labels_to_names is None without a labels file and has one entry per class
\* with one; the metrics are chosen by the class count; then the summaries
\* are added.
EBuildGraph ==
  /\ epc = "graph"
  /\ \E nc \in 1..MaxClasses, ns \in 1..MaxSamples, labelled \in BOOLEAN :
       dataset' = [num_classes |-> nc, num_samples |-> ns,
                   labels_to_names |-> IF labelled THEN Labels(0..(nc - 1)) ELSE NoLabels]
  /\ names_to_values' = NamesToValues(MetricMap(dataset'.num_classes))
  /\ names_to_updates' = NamesToUpdates(MetricMap(dataset'.num_classes))
  /\ IF SummaryError(dataset') # "ok"
     THEN /\ eerror' = SummaryError(dataset')
          /\ epc' = "raised"
     ELSE /\ epc' = EAfterStep(epc)
          /\ UNCHANGED eerror
  /\ UNCHANGED <<argv, given, ckpt_dir, FLAGS, num_batches, checkpoint_path, restored, evals_completed, fed, executed, xvars, pvars>>

\* Lines 253-257. math.ceil(num_samples / float(batch_size)).
Ceil(n, b) == IF n % b = 0 THEN n \div b ELSE n \div b + 1
NumBatches(F, ds) ==
  IF IntTruthy(F.max_num_batches) THEN F.max_num_batches.int ELSE Ceil(ds.num_samples, F.batch_size)

ENumBatches ==
  /\ epc = "num_batches"
  /\ num_batches' = NumBatches(FLAGS, dataset)
  /\ epc' = EAfterStep(epc)
  /\ UNCHANGED <<argv, given, ckpt_dir, FLAGS, eerror, dataset, names_to_values, names_to_updates, checkpoint_path, restored, evals_completed, fed, executed, xvars, pvars>>

\* Lines 259-262. tf.gfile.IsDirectory tells a directory from a checkpoint
\* prefix; tf.train.latest_checkpoint gives the checkpoint the directory's
\* state file names, the one saved last (the greatest step), or None when
\* the directory holds no checkpoint.
IsDirectory(p) == p.kind = "dir"
LatestCheckpointOldest(saved) ==
  IF saved = {} THEN CkNone ELSE CkFile(CHOOSE i \in saved : \A j \in saved : i <= j)
LatestCheckpoint(saved) ==
  IF saved = {} THEN CkNone ELSE CkFile(CHOOSE i \in saved : \A j \in saved : j <= i)
ResolveCheckpoint(F, saved) ==
  IF IsDirectory(F.checkpoint_path) THEN LatestCheckpoint(saved) ELSE F.checkpoint_path

EResolveCheckpoint ==
  /\ epc = "checkpoint"
  /\ checkpoint_path' = ResolveCheckpoint(FLAGS, ckpt_dir)
  /\ epc' = EAfterStep(epc)
  /\ UNCHANGED <<argv, given, ckpt_dir, FLAGS, eerror, dataset, names_to_values, names_to_updates, num_batches, restored, evals_completed, fed, executed, xvars, pvars>>

\* evaluate_once restores checkpoint_path once, when its session is created;
\* with None nothing is restored.
RestoredBy(cp) == IF cp.kind = "none" THEN {} ELSE {cp}

\* Lines 150-175: the provider reads the split in order (shuffle=False) and,
\* with num_epochs left at None, starts over at its end: position p of its
\* stream is sample p % num_samples. tf.train.batch fills full batches with
\* num_threads threads, each holding one element of the stream at a time, so
\* an element can be overtaken by the elements the other threads hold: the
\* next batch is any batch_size of the positions not yet fed among those the
\* threads can have taken.
NextBatches(done, b, threads) ==
  {B \in SUBSET ((0..(Cardinality(done) + b + threads - 2)) \ done) : Cardinality(B) = b}

\* How often sample i of a split of n has been fed.
FedCount(i, positions, n) == Cardinality({p \in positions : p % n = i})

\* Lines 266-272: what slim.evaluation.evaluate_once raises before the first
\* evaluation: the script has added summaries, so the summary hook is built
\* with log_dir = FLAGS.eval_dir and refuses None; then the session is
\* created and restoring a checkpoint that does not exist fails.
EvaluateError(F, cp, saved) ==
  IF F.eval_dir.none THEN "ValueError: One of log_dir or summary_writer should be used."
  ELSE IF cp.kind = "file" /\ cp.step \notin saved
       THEN "ValueError: The passed save_path is not a valid checkpoint"
       ELSE "ok"

\* Lines 266-272: slim.evaluation.evaluate_once runs eval_op, the list of
\* all update ops, once per evaluation on the next batch of batch_size
\* samples, and stops once the count of evaluations has reached num_evals.
EvalOp(updates) == {updates[n] : n \in DOMAIN updates}

EEvalStep ==
  /\ epc = "evaluate"
  /\ IF evals_completed = 0 /\ EvaluateError(FLAGS, checkpoint_path, ckpt_dir) # "ok"
     THEN /\ eerror' = EvaluateError(FLAGS, checkpoint_path, ckpt_dir)
          /\ epc' = "raised"
          /\ UNCHANGED <<restored, executed, evals_completed, fed>>
     ELSE /\ restored' = IF evals_completed = 0 THEN RestoredBy(checkpoint_path) ELSE restored
          /\ executed' = EvalOp(names_to_updates)
          /\ evals_completed' = evals_completed + 1
          /\ \E B \in NextBatches(fed, FLAGS.batch_size, FLAGS.num_preprocessing_threads) : fed' = fed \cup B
          /\ epc' = IF evals_completed' >= num_batches THEN "done" ELSE "evaluate"
          /\ UNCHANGED eerror
  /\ UNCHANGED <<argv, given, ckpt_dir, FLAGS, dataset, names_to_values, names_to_updates, num_batches, checkpoint_path, xvars, pvars>>

\* The command lines of the model of main, as the __main__ block leaves
\* them: the batch flags vary.
EvalArgvs ==
  {[DefaultFlags EXCEPT !.data_path = dp, !.eval_dir = ed, !.batch_size = b, !.max_num_batches = m, !.checkpoint_path = cp] :
     dp \in {PyStr(t) : t \in StringsUpTo(1)},
     ed \in {PyNone, PyStr(<<"o">>)},
     cp \in {CkDir} \cup {CkFile(i) : i \in 1..MaxCkpts},
     b \in 1..MaxBatchSize,
     m \in {PyNoneInt} \cup {PyInt(i) : i \in (0 - MaxCap)..MaxCap}}

EvalInit ==
  /\ argv \in EvalArgvs
  /\ given = GivenOf(argv, {})
  /\ FLAGS = Reparse(DogOverride(AliasEvalDir(AliasDatasetDir(argv))), argv, given)
  /\ ckpt_dir \in SUBSET (1..MaxCkpts)
  /\ epc = "run"
  /\ eerror = "ok"
  /\ dataset = NoDataset
  /\ names_to_values = <<>>
  /\ names_to_updates = <<>>
  /\ num_batches = 0
  /\ checkpoint_path = CkNone
  /\ restored = {}
  /\ evals_completed = 0
  /\ fed = {}
  /\ executed = {}

StartupNext == EAliasDatasetDir \/ EAliasEvalDir \/ EDog \/ EAppRun \/ EMainCheck
EvalNext == EMainCheck \/ EBuildGraph \/ ENumBatches \/ EResolveCheckpoint \/ EEvalStep

(***************************************************************************)
(* The preprocessing export puts in front of the model.  A tensor is one   *)
(* pixel of a 1 x 1 image, held as the exact fraction num / den with its   *)
(* dtype; on such an image the central crop and the bilinear resize leave  *)
(* the value as it is.                                                     *)
(***************************************************************************)
MaxPixel == 255
Tensor(dt, n, d) == [dtype |-> dt, num |-> n, den |-> d]

\* tf.to_float casts: the dtype becomes float32, the value stays.
to_float(t) == [t EXCEPT !.dtype = "float32"]
\* tf.image.convert_image_dtype from uint8 scales by 1 / 255.
convert_image_dtype(t) == Tensor("float32", t.num, t.den * MaxPixel)
subtract(t, n, d) == Tensor(t.dtype, t.num * d - n * t.den, t.den * d)
multiply(t, n) == Tensor(t.dtype, t.num * n, t.den)

\* Lines 51-65, with the default use_grayscale=False.
model_preprocess(img, height, width) ==
  LET converted == IF img.dtype # "float32" THEN convert_image_dtype(img) ELSE img
  IN IF height # 0 /\ width # 0
       THEN multiply(subtract(converted, 1, 2), 2)
       ELSE converted

PIdle ==
  /\ pixel = 0
  /\ image_size = 0
  /\ ppc = "idle"
  /\ image = Tensor("uint8", 0, 1)

PInit ==
  /\ pixel \in 0..MaxPixel
  /\ image_size \in 0..MaxImageSize
  /\ ppc = "to_float"
  /\ image = Tensor("uint8", pixel, 1)

\* Line 295.
PToFloat ==
  /\ ppc = "to_float"
  /\ image' = to_float(image)
  /\ ppc' = "model_preprocess"
  /\ UNCHANGED <<pixel, image_size, xvars, evars>>

\* Line 296.
PModelPreprocess ==
  /\ ppc = "model_preprocess"
  /\ image' = model_preprocess(image, image_size, image_size)
  /\ ppc' = "done"
  /\ UNCHANGED <<pixel, image_size, xvars, evars>>

PNext == PToFloat \/ PModelPreprocess

\* One run of export_inference_graph.
InitExport == XInit /\ EIdle /\ PIdle
SpecExport == InitExport /\ [][XNext]_vars

\* The script from its first statement to main's precondition.
InitStartup == StartupInit /\ XIdle /\ PIdle
SpecStartup == InitStartup /\ [][StartupNext]_vars

\* main, from the call by tf.app.run() to the end of the evaluation.
InitEval == EvalInit /\ XIdle /\ PIdle
SpecEval == InitEval /\ [][EvalNext]_vars

\* The image path of _get_outputs_from_inputs, for every pixel value.
InitPreprocess == PInit /\ XIdle /\ EIdle
SpecPreprocess == InitPreprocess /\ [][PNext]_vars

(***************************************************************************)
(* Properties of the export workflow.                                      *)
(***************************************************************************)
IsPrefixOf(a, b) == Len(a) <= Len(b) /\ SubSeq(b, 1, Len(a)) = a
PastSelect == xpc \in {"materialize", "freeze", "bundle", "done"}
RawOf(v) == trained0.tensors[OwnName(v)]
ShadowOf(v) == trained0.tensors[AverageName(v)]
HasShadow == \A v \in TrainableVars : AverageName(v) \in DOMAIN trained0.tensors
ExportedValue(v) == IF Truthy(use_moving_averages) THEN ShadowOf(v) ELSE RawOf(v)
Frozen == frozen_files[output_directory]
Bundle == saved_models[output_directory]

\* C1: with moving-average substitution requested, the checkpoint handed to
\* checkpoint materialization and to freezing is the newly written temporary
\* checkpoint, whose variables hold the shadow values of the trained
\* checkpoint, and the frozen constants are those shadow values; without
\* substitution the trained checkpoint prefix itself is handed over and the
\* frozen constants are the raw values.
C1_FreezeInputSubstituted ==
  /\ (PastSelect /\ Truthy(use_moving_averages)) =>
       /\ checkpoint_to_use = TmpPrefix
       /\ checkpoint_to_use # trained_checkpoint_prefix
       /\ HasShadow
       /\ \A v \in TrainableVars : ReadCkpt(ckpts, checkpoint_to_use).tensors[OwnName(v)] = ShadowOf(v)
  /\ (PastSelect /\ ~Truthy(use_moving_averages)) => checkpoint_to_use = trained_checkpoint_prefix
  /\ xpc \in {"freeze", "bundle", "done"} =>
       \A v \in TrainableVars :
         ReadCkpt(ckpts, ModelPath(output_directory)).tensors[OwnName(v)] = ExportedValue(v)
  /\ Frozen # Absent =>
       \A v \in TrainableVars : Frozen.constants[v] = ExportedValue(v)

C1_Witness ==
  /\ xpc = "done"
  /\ Truthy(use_moving_averages)
  /\ HasShadow
  /\ ShadowOf("w") # RawOf("w")
  /\ Frozen.constants["w"] = ShadowOf("w")

\* C2: when the export has finished, the variable values carried by the
\* servable bundle equal the values baked into the frozen graph.
C2_BundleCarriesFrozenWeights ==
  xpc = "done" => \A v \in DOMAIN Frozen.constants : Bundle.variables[v] = Frozen.constants[v]

\* C9: the files of the trained checkpoint have the contents they had before
\* export_inference_graph was called.
C9_TrainedCheckpointUnchanged ==
  \E ver \in Versions : ckpts[Slot(trained_checkpoint_prefix, ver)] = trained0

\* C10: the steps run in the order graph construction, substitution (only if
\* requested), checkpoint materialization, freezing, bundling, each at most
\* once, and the servable bundle is the last artifact written.
PipelineOrder(uma) ==
  <<"makedirs", "graph">> \o (IF Truthy(uma) THEN <<"substitute">> ELSE <<>>) \o <<"checkpoint", "freeze", "bundle">>
ArtifactOrder(uma) ==
  (IF Truthy(uma) THEN <<"temporary checkpoint">> ELSE <<>>) \o <<"model.ckpt", "frozen_inference_graph.pb", "saved_model">>

C10_PipelineOrder ==
  /\ IsPrefixOf(steps, PipelineOrder(use_moving_averages))
  /\ IsPrefixOf(artifacts, ArtifactOrder(use_moving_averages))
  /\ xpc = "done" =>
       /\ steps = PipelineOrder(use_moving_averages)
       /\ artifacts = ArtifactOrder(use_moving_averages)
       /\ artifacts[Len(artifacts)] = "saved_model"
  /\ (Bundle # Absent) => (Frozen # Absent /\ ReadCkpt(ckpts, ModelPath(output_directory)) # Absent)

C10_Witness ==
  /\ xpc = "done"
  /\ steps = <<"makedirs", "graph", "substitute", "checkpoint", "freeze", "bundle">>

(***************************************************************************)
(* Properties of export_inference_graph's precondition errors.             *)
(***************************************************************************)
UnknownInputType == "ValueError: Unknown input type"
ShapeNotAllowed == "ValueError: Can only specify input shape for 'image_tensor' inputs."
PastBuild == xpc \in {"select", "materialize", "freeze", "bundle", "done"}
NothingConstructed == graph.placeholder = NoPlaceholder /\ graph.outputs = {} /\ graph.variables = {} /\ ~hook_called

\* C11: for an input_type other than 'image_tensor' and
\* 'encoded_image_string_tensor', whatever the other arguments, the export
\* raises the 'Unknown input type' ValueError with no placeholder, output
\* tensor or variable constructed and the graph hook not called.
C11_UnknownInputTypeRejectedFirst ==
  input_type \notin {"image_tensor", "encoded_image_string_tensor"} =>
    /\ NothingConstructed
    /\ ~PastBuild
    /\ xpc = "raised" => xerror = UnknownInputType

C11_Witness ==
  /\ xpc = "raised"
  /\ input_type = "tf_example"
  /\ input_shape # NoShape
  /\ graph_hook_fn = "fn"
  /\ xerror = UnknownInputType
  /\ NothingConstructed

\* C12: input_shape given with 'encoded_image_string_tensor' raises a
\* ValueError before any placeholder is built; with 'image_tensor' the given
\* input_shape is accepted and is the placeholder's shape, and without
\* input_shape the placeholder's shape is (None, None, None, 3).
C12_InputShapeOnlyForImageTensor ==
  /\ (input_shape # NoShape /\ input_type = "encoded_image_string_tensor") =>
       /\ graph.placeholder = NoPlaceholder
       /\ ~PastBuild
       /\ xpc = "raised" => xerror = ShapeNotAllowed
  /\ input_type = "image_tensor" =>
       /\ xerror \notin {UnknownInputType, ShapeNotAllowed}
       /\ PastBuild =>
            /\ graph.placeholder.name = "image_tensor"
            /\ graph.placeholder.shape =
                 IF input_shape # NoShape THEN input_shape ELSE <<UnknownDim, UnknownDim, UnknownDim, 3>>

C12_Witness ==
  /\ xpc = "raised"
  /\ input_type = "encoded_image_string_tensor"
  /\ input_shape # NoShape
  /\ xerror = ShapeNotAllowed
  /\ graph.placeholder = NoPlaceholder

\* What the call found on disk is still there and nothing else is: no
\* checkpoint, frozen graph or bundle has been written.
NoFileWritten ==
  /\ \A sl \in AllSlots :
       ckpts[sl] = IF Prefix(sl.dir, sl.name) = trained_checkpoint_prefix /\ ckpts[sl] # Absent
                   THEN trained0 ELSE Absent
  /\ \A d \in Dirs : frozen_files[d] = Absent /\ saved_models[d] = Absent

\* C15 as claimed: when export_inference_graph has raised one of its own
\* precondition errors nothing has been created on disk, the output
\* directory included.
C15_RejectedExportLeavesDiskUnchanged ==
  (xpc = "raised" /\ xerror \in {UnknownInputType, ShapeNotAllowed}) =>
    /\ dirs = dirs0
    /\ NoFileWritten

\* C15 as amended: a call whose arguments are rejected (unknown input_type,
\* or input_shape with a supported input_type other than 'image_tensor')
\* writes no file; when it has raised, the only change on disk is that the
\* output directory exists.
RejectedArguments ==
  \/ input_type \notin {"image_tensor", "encoded_image_string_tensor"}
  \/ input_shape # NoShape /\ input_type # "image_tensor"

C15_RejectedExportWritesNoFile ==
  RejectedArguments =>
    /\ NoFileWritten
    /\ dirs \subseteq dirs0 \cup {output_directory}
    /\ xpc = "raised" =>
         /\ xerror \in {UnknownInputType, ShapeNotAllowed}
         /\ dirs = dirs0 \cup {output_directory}

C15_Witness ==
  /\ xpc = "raised"
  /\ xerror \in {UnknownInputType, ShapeNotAllowed}
  /\ output_directory \notin dirs0
  /\ output_directory \in dirs
  /\ NoFileWritten

(***************************************************************************)
(* Properties of the export preprocessing.                                 *)
(***************************************************************************)
Normalized == ppc = "done" /\ image_size # 0
InSymmetricRange(t) == 0 - t.den <= t.num /\ t.num <= t.den
EqualsInt(t, n) == t.num = n * t.den

\* C13: for every pixel value 0..255 of the uint8 input, the value handed to
\* the model after the float conversion and the subtract-0.5, multiply-by-2
\* step lies in [-1, 1], with 0 mapped to -1 and 255 mapped to 1.
C13_NormalizedToSymmetricRange ==
  Normalized =>
    /\ InSymmetricRange(image)
    /\ pixel = 0 => EqualsInt(image, 0 - 1)
    /\ pixel = MaxPixel => EqualsInt(image, 1)

(***************************************************************************)
(* Properties of the evaluation driver.                                    *)
(***************************************************************************)
\* The least k with k * b >= n.
CeilOf(n, b) == CHOOSE k \in 0..n : k * b >= n /\ (k - 1) * b < n
PastNumBatches == epc \in {"checkpoint", "evaluate", "done"}
PastGraph == epc \in {"num_batches", "checkpoint", "evaluate", "done"}

\* C3: num_batches equals max_num_batches when it is supplied and positive,
\* and ceil(sample_count / batch_size) in every other case (absent, zero or
\* negative).
C3_NumBatchesSelection ==
  PastNumBatches =>
    num_batches = IF ~FLAGS.max_num_batches.none /\ FLAGS.max_num_batches.int > 0
                  THEN FLAGS.max_num_batches.int
                  ELSE CeilOf(dataset.num_samples, FLAGS.batch_size)

\* C4: with max_num_batches not set, the loop runs the update steps
\* ceil(sample_count / batch_size) times on batch_size samples each, every
\* sample is consumed, and no sample is fed more than once: the samples
\* consumed never exceed sample_count.
C4_SinglePassWithoutCap ==
  FLAGS.max_num_batches.none =>
    /\ Cardinality(fed) <= dataset.num_samples
    /\ epc = "done" =>
         /\ evals_completed = CeilOf(dataset.num_samples, FLAGS.batch_size)
         /\ Cardinality(fed) = evals_completed * FLAGS.batch_size
         /\ \A i \in 0..(dataset.num_samples - 1) : FedCount(i, fed, dataset.num_samples) = 1

\* The metric a metric function of the script computes.
MetricOf(m) ==
  CASE m.fn = "streaming_accuracy" -> "Accuracy"
    [] m.fn = "streaming_precision" -> "Precision"
    [] m.fn = "streaming_recall" -> "Recall"
    [] m.fn = "streaming_recall_at_k" /\ m.arg = "5" -> "Recall_5"
    [] m.fn = "f1_score" -> "F1"
    [] m.fn = "streaming_auc" /\ m.arg = "ROC" -> "AUC-ROC"
    [] m.fn = "streaming_auc" /\ m.arg = "PR" -> "AUC-PR"
    [] m.fn = "streaming_true_positives" -> "TP"
    [] m.fn = "streaming_true_negatives" -> "TN"
    [] m.fn = "streaming_false_positives" -> "FP"
    [] m.fn = "streaming_false_negatives" -> "FN"
    [] OTHER -> "other"
MultiClassSet == {"Accuracy", "Precision", "Recall", "Recall_5"}
BinarySet == {"Accuracy", "Precision", "Recall", "F1", "AUC-ROC", "AUC-PR", "TP", "TN", "FP", "FN"}
WantedMetrics == IF dataset.num_classes > 2 THEN MultiClassSet ELSE BinarySet
ExactlyWanted(ops, kind) ==
  /\ {MetricOf(o.metric) : o \in ops} = WantedMetrics
  /\ Cardinality(ops) = Cardinality(WantedMetrics)
  /\ \A o \in ops : o.op = kind

\* C5: for a class count above 2 exactly the metrics Accuracy, Precision,
\* Recall and Recall_5 have value and update operations, otherwise exactly
\* the ten binary metrics, each once; and the operations executed per batch
\* are exactly those update operations.
C5_MetricSetSelection ==
  /\ PastGraph =>
       /\ ExactlyWanted({names_to_values[n] : n \in DOMAIN names_to_values}, "value")
       /\ ExactlyWanted({names_to_updates[n] : n \in DOMAIN names_to_updates}, "update")
       /\ DOMAIN names_to_values = DOMAIN names_to_updates
       /\ Cardinality(DOMAIN names_to_updates) = Cardinality(WantedMetrics)
  /\ evals_completed > 0 => ExactlyWanted(executed, "update")

C5_Witness ==
  /\ epc = "done"
  /\ dataset.num_classes = 2
  /\ evals_completed > 1
  /\ Cardinality(executed) = 10

\* C14: when checkpoint_path names a directory the checkpoint handed to the
\* evaluation run is the latest checkpoint in that directory; when it names
\* a file or prefix exactly that path is handed over; and the run restores
\* from the resolved checkpoint and from no other.
C14_CheckpointResolution ==
  epc \in {"evaluate", "done"} =>
    /\ (IsDirectory(FLAGS.checkpoint_path) /\ ckpt_dir # {}) =>
         /\ checkpoint_path.kind = "file"
         /\ checkpoint_path.step \in ckpt_dir
         /\ \A t \in ckpt_dir : t <= checkpoint_path.step
    /\ FLAGS.checkpoint_path.kind = "file" => checkpoint_path = FLAGS.checkpoint_path
    /\ restored \subseteq {checkpoint_path}
    /\ (evals_completed > 0 /\ checkpoint_path.kind = "file") => restored = {checkpoint_path}

C14_Witness ==
  /\ epc = "done"
  /\ IsDirectory(FLAGS.checkpoint_path)
  /\ Cardinality(ckpt_dir) > 1
  /\ restored = {checkpoint_path}
  /\ \A t \in ckpt_dir : t <= checkpoint_path.step

(***************************************************************************)
(* Properties of the script's start-up.                                    *)
(***************************************************************************)
StartupEnded == epc \in {"run", "graph", "raised"}
DatasetDirError == "ValueError: You must supply the dataset directory with --dataset_dir"

\* C6: started with neither dataset_dir nor data_path, the run ends with
\* the 'You must supply the dataset directory' ValueError and with no other
\* error first, before anything is constructed.
C6_MissingDatasetDirFailsFast ==
  (argv.dataset_dir.none /\ argv.data_path.none) =>
    /\ epc = "raised" => eerror = DatasetDirError
    /\ epc # "graph"

\* The dataset path of a command line: data_path if given, else dataset_dir.
DatasetPathOf(a) == IF ~a.data_path.none THEN a.data_path ELSE a.dataset_dir
NamesOf(F) == <<F.dataset_name, F.dataset_split_name, F.model_name>>

\* C7: the three name flags are forced to ('dog-vs-cat', 'validation',
\* 'inception_v3') exactly when the dataset path contains 'dog'; in every
\* other configuration with a dataset directory, also with data_path
\* omitted, they keep their values and start-up goes on without error.
C7_DogSpecialCase ==
  StartupEnded =>
    IF ~DatasetPathOf(argv).none /\ Contains(DatasetPathOf(argv).str, Dog)
    THEN NamesOf(FLAGS) = <<"dog-vs-cat", "validation", "inception_v3">>
    ELSE /\ NamesOf(FLAGS) = NamesOf(argv)
         /\ ~StrFalsy(DatasetPathOf(argv)) => epc # "raised"

\* C8: data_path, when supplied, overwrites dataset_dir and output_path,
\* when supplied, overwrites eval_dir (an own value is discarded, an absent
\* alias leaves the target unchanged), and both overwrites are in effect
\* when the dog special-casing step runs and when main reads the flags.
C8_AliasesBeforeSpecialCase ==
  epc \in {"dog", "app_run", "run", "graph", "raised"} =>
    /\ FLAGS.dataset_dir = IF ~argv.data_path.none THEN argv.data_path ELSE argv.dataset_dir
    /\ FLAGS.eval_dir = IF ~argv.output_path.none THEN argv.output_path ELSE argv.eval_dir

====
